---- MODULE Spec2Model ----
(***************************************************************************)
(* Model of pyOCD/pyDAPAccess/interface/pyusb_backend.py: the PyUSB        *)
(* interface (open / write / read / close), its receive thread rx_task,    *)
(* and the static enumeration getAllConnectedInterface.                    *)
(*                                                                         *)
(* One PyUSB instance is modelled, driven by one caller thread (callerPc)  *)
(* and, once open() has started it, by the rx_task thread (pumpPc).  The   *)
(* caller's methods are split at the points where the receive thread can   *)
(* interleave (semaphore release, transfer, join).                         *)
(***************************************************************************)
EXTENDS Integers, Sequences, FiniteSets, TLC

\* ------------------------------------------------------------------ bounds
MaxWrites == 3      \* write() calls made by the caller
MaxCloses == 2      \* close() calls that pass the assertion
MaxBus == 3         \* devices on the bus scanned by getAllConnectedInterface

\* ------------------------------------------------------- program constants
HID_CLASS == 3              \* interface.bInterfaceClass == 0x03
IN_BIT == 128               \* ep.bEndpointAddress & 0x80
DEFAULT_REPORT_SIZE == 64   \* report_size = 64
bmRequestType == 33         \* 0x21
bmRequest == 9              \* 0x09
wValue == 512               \* 0x200

\* Python None; a record so that it compares with endpoint and device records
None == [none |-> TRUE]

\* str.find(sub): lowest index (0-based) where sub occurs in s, else -1
Find(s, sub) ==
    LET hits == {i \in 0..(Len(s) - Len(sub)) :
                    SubSeq(s, i + 1, i + Len(sub)) = sub}
    IN IF hits = {} THEN -1
       ELSE CHOOSE i \in hits : \A j \in hits : i <= j

MARKER == <<"C", "M", "S", "I", "S", "-", "D", "A", "P">>

\* ---------------------------------------------------------- the USB bus
Ep(addr, size) == [bEndpointAddress |-> addr, wMaxPacketSize |-> size]

Intf(cls, num, eps) ==
    [bInterfaceClass |-> cls, bInterfaceNumber |-> num, endpoints |-> eps]

Dev(sn, product, intfs) ==
    [serial_number |-> sn, product |-> product, interfaces |-> intfs]

ProdDap == MARKER
ProdMbed == <<"m", " ">> \o MARKER \o <<"x">>
ProdRepeat == <<"C", "M">> \o MARKER
ProdShort == <<"C", "M", "S", "I", "S", "-", "D", "A">>
ProdOther == <<"C", "M", "S", "I", "S", "_", "D", "A", "P">>
ProdEmpty == << >>

\* The bus the instance is opened against: one device per topology.
MainBus ==
    << Dev("A", ProdDap,  <<Intf(8, 0, <<Ep(130, 64), Ep(2, 64)>>),
                            Intf(HID_CLASS, 1, <<Ep(129, 64), Ep(1, 64)>>)>>),
       Dev("B", ProdMbed, <<Intf(HID_CLASS, 1, <<Ep(129, 64)>>)>>),
       Dev("C", ProdOther, <<Intf(8, 0, <<Ep(129, 64), Ep(1, 64)>>)>>),
       Dev("D", ProdDap,  <<Intf(HID_CLASS, 2, <<Ep(1, 64)>>)>>),
       Dev("E", ProdDap,  <<Intf(HID_CLASS, 0, <<Ep(2, 8)>>),
                            Intf(HID_CLASS, 1, <<Ep(129, 64), Ep(1, 64)>>)>>),
       Dev("F", ProdDap,  << >>),
       Dev("F", ProdDap,  <<Intf(HID_CLASS, 0, <<Ep(129, 64), Ep(1, 64)>>)>>),
       Dev("G", ProdDap,  <<Intf(HID_CLASS, 3, <<Ep(1, 2), Ep(129, 2)>>)>>) >>

Serials == {"A", "B", "C", "D", "E", "F", "G", "Z"}

\* usb.core.find(custom_match=match_self): the first matching device, or None
FindDevice(b, sn) ==
    LET hits == {i \in 1..Len(b) : b[i].serial_number = sn}
    IN IF hits = {} THEN None
       ELSE b[CHOOSE i \in hits : \A j \in hits : i <= j]

\* mutant of FindHidInterface: the loop has no break, the last match stays
FindHidInterface_m(config) ==
    LET hits == {i \in 1..Len(config) : config[i].bInterfaceClass = HID_CLASS}
    IN IF hits = {} THEN 0
       ELSE CHOOSE i \in hits : \A j \in hits : i >= j

\* for interface in config: if class == 0x03: ...; break
\* index of the interface the loop stops at, 0 when the loop runs out
FindHidInterface(config) ==
    LET hits == {i \in 1..Len(config) : config[i].bInterfaceClass = HID_CLASS}
    IN IF hits = {} THEN 0
       ELSE CHOOSE i \in hits : \A j \in hits : i <= j

IsIn(ep) == (ep.bEndpointAddress \div IN_BIT) % 2 = 1

\* for ep in interface: the last IN endpoint and the last other endpoint
RECURSIVE ScanEndpoints(_, _, _)
ScanEndpoints(eps, ep_in0, ep_out0) ==
    IF eps = << >> THEN [ep_in |-> ep_in0, ep_out |-> ep_out0]
    ELSE IF IsIn(Head(eps))
         THEN ScanEndpoints(Tail(eps), Head(eps), ep_out0)
         ELSE ScanEndpoints(Tail(eps), ep_in0, Head(eps))

\* mutant of Pad: the padding loop stops one byte short
Pad_m(data, report_size) ==
    data \o [i \in 1..(report_size - Len(data) - 1) |-> 0]

\* for _ in range(report_size - len(data)): data.append(0)
Pad(data, report_size) ==
    data \o [i \in 1..(report_size - Len(data)) |-> 0]

\* report_size = 64; if self.ep_out: report_size = self.ep_out.wMaxPacketSize
ReportSize(epo) ==
    IF epo # None THEN epo.wMaxPacketSize ELSE DEFAULT_REPORT_SIZE

\* data passed to write() by the caller
Payloads == { << >>, <<0, 1>>, <<2, 0, 5>> }

\* PyUSB.__init__
NewPyUSB(sn) ==
    [ep_out |-> None, ep_in |-> None, dev |-> None, closed |-> FALSE,
     rcv_data |-> << >>, read_sem |-> 0, _open |-> FALSE,
     serial_number |-> sn, thread |-> None]

\* ---------------------------------------------------------------- state
VARIABLES
    ep_out, ep_in, dev, closed, rcv_data, read_sem, _open, serial_number,
    intf_number,    \* << >> until open() assigns the attribute, then <<n>>
    pumpPc,         \* position of the rx_task thread; "none" before start()
    callerPc,       \* position of the caller thread inside the current call
    wdata,          \* local of the call in progress: write()'s data list,
                    \* open()'s kernel-driver outcome
    ret,            \* outcome of the caller's last completed call; for open()
                    \* also what it did about the kernel driver
    bus,            \* devices attached, in enumeration order
    devResp,        \* packets the device has queued on the IN endpoint
    nDispose,       \* usb.util.dispose_resources(self.dev) calls made by close()
    nWrites,        \* write() calls started; also the id of the latest request
    nFailed,        \* write() calls that raised
    nOpenWrites,    \* write() calls started with intf_number assigned
    nSignals,       \* read_sem.release() calls made by write()
    nCloseSignals,  \* read_sem.release() calls made by close()
    nXfer,          \* transfers issued: [ep_out |-> n, ctrl |-> n]
    xfer,           \* the last transfer issued by write()
    hwReads,        \* ep_in.read() calls issued by rx_task
    threadsStarted, \* thread.start() calls
    readLog,        \* packets returned by read(), in order
    rxLog,          \* packets returned by ep_in.read(), in order
    enumPc, enumIdx, boards, held, product   \* getAllConnectedInterface

inst == <<ep_out, ep_in, dev, closed, rcv_data, read_sem, _open,
          serial_number, intf_number>>
threads == <<pumpPc, callerPc, wdata, ret>>
env == <<bus, devResp, nDispose>>
hist == <<nWrites, nFailed, nOpenWrites, nSignals, nCloseSignals, nXfer,
          xfer, hwReads, threadsStarted, readLog, rxLog>>
enum == <<enumPc, enumIdx, boards, held, product>>
vars == <<inst, threads, env, hist, enum>>

Ret(op, res) == [op |-> op, res |-> res, detach |-> "none"]

InitInstance(sn) ==
    LET o == NewPyUSB(sn) IN
    /\ ep_out = o.ep_out
    /\ ep_in = o.ep_in
    /\ dev = o.dev
    /\ closed = o.closed
    /\ rcv_data = o.rcv_data
    /\ read_sem = o.read_sem
    /\ _open = o._open
    /\ serial_number = o.serial_number
    /\ intf_number = << >>
    /\ pumpPc = "none"

InitRest ==
    /\ callerPc = "idle"
    /\ wdata = << >>
    /\ ret = Ret("init", "ok")
    /\ devResp = << >>
    /\ nDispose = 0
    /\ nWrites = 0
    /\ nFailed = 0
    /\ nOpenWrites = 0
    /\ nSignals = 0
    /\ nCloseSignals = 0
    /\ nXfer = [ep_out |-> 0, ctrl |-> 0]
    /\ xfer = None
    /\ hwReads = 0
    /\ threadsStarted = 0
    /\ readLog = << >>
    /\ rxLog = << >>
    /\ enumPc = "idle"
    /\ enumIdx = 0
    /\ boards = << >>
    /\ held = {}
    /\ product = None

Init ==
    /\ bus = MainBus
    /\ \E sn \in Serials : InitInstance(sn)
    /\ InitRest

\* ------------------------------------------------------------- open()
\* is_kernel_driver_active / detach_kernel_driver: not active, detached, or
\* an exception that open() prints and ignores
KernelOutcomes == {"inactive", "detached", "raised"}

\* mutant of OpenRaise: the scanned OUT endpoint is stored in self.ep_out
\* before the IN endpoint is checked
OpenRaise_m(res, kd) ==
    /\ ret' = [op |-> "open", res |-> res, detach |-> kd]
    /\ callerPc' = "idle"
    /\ ep_out' = IF kd = "none" THEN ep_out
                 ELSE LET d == FindDevice(bus, serial_number)
                      IN ScanEndpoints(
                             d.interfaces[FindHidInterface(d.interfaces)].endpoints,
                             None, None).ep_out
    /\ UNCHANGED <<ep_in, intf_number, pumpPc, threadsStarted, wdata>>

\* raise out of open() before any attribute of self is assigned
OpenRaise(res, kd) ==
    /\ ret' = [op |-> "open", res |-> res, detach |-> kd]
    /\ callerPc' = "idle"
    /\ UNCHANGED <<ep_in, ep_out, intf_number, pumpPc, threadsStarted, wdata>>

\* lines 53-109: everything up to and including self.thread.start()
OpenCall ==
    /\ callerPc = "idle"
    /\ UNCHANGED <<dev, closed, rcv_data, read_sem, _open, serial_number>>
    /\ UNCHANGED <<bus, devResp, nDispose, enum>>
    /\ UNCHANGED <<nWrites, nFailed, nOpenWrites, nSignals, nCloseSignals,
                   nXfer, xfer, hwReads, readLog, rxLog>>
    /\ IF _open # FALSE
       THEN OpenRaise("AssertionError", "none")
       ELSE LET d == FindDevice(bus, serial_number) IN
            IF d = None
            THEN OpenRaise("Error", "none")
            ELSE LET k == FindHidInterface(d.interfaces) IN
                 IF k = 0
                 THEN OpenRaise("Error", "none")
                 ELSE \E kd \in KernelOutcomes :
                      LET interface == d.interfaces[k]
                          e == ScanEndpoints(interface.endpoints, None, None)
                      IN IF e.ep_in = None
                         THEN OpenRaise("Error", kd)
                         ELSE /\ intf_number' = <<interface.bInterfaceNumber>>
                              /\ ep_in' = e.ep_in
                              /\ ep_out' = e.ep_out
                              /\ pumpPc' = "while"
                              /\ threadsStarted' = threadsStarted + 1
                              /\ callerPc' = "open_finish"
                              /\ wdata' = kd
                              /\ UNCHANGED ret

\* lines 110-111: self.dev = dev; self._open = True
OpenFinish ==
    /\ callerPc = "open_finish"
    /\ dev' = FindDevice(bus, serial_number)
    /\ _open' = TRUE
    /\ ret' = [op |-> "open", res |-> "ok", detach |-> wdata]
    /\ wdata' = << >>
    /\ callerPc' = "idle"
    /\ UNCHANGED <<ep_out, ep_in, closed, rcv_data, read_sem, serial_number,
                   intf_number, pumpPc, env, hist, enum>>

\* ------------------------------------------------------------ rx_task
\* line 114: while not self.closed
RxLoop ==
    /\ pumpPc = "while"
    /\ pumpPc' = IF closed THEN "done" ELSE "acquire"
    /\ UNCHANGED <<inst, callerPc, wdata, ret, env, hist, enum>>

\* mutant of RxAcquire: the acquire does not take the token
RxAcquire_m ==
    /\ pumpPc = "acquire"
    /\ read_sem > 0
    /\ pumpPc' = "check"
    /\ UNCHANGED <<inst, callerPc, wdata, ret, env, hist, enum>>

\* line 115: self.read_sem.acquire()
RxAcquire ==
    /\ pumpPc = "acquire"
    /\ read_sem > 0
    /\ read_sem' = read_sem - 1
    /\ pumpPc' = "check"
    /\ UNCHANGED <<ep_out, ep_in, dev, closed, rcv_data, _open, serial_number,
                   intf_number, callerPc, wdata, ret, env, hist, enum>>

\* mutant of RxCheck: the closed flag is not tested after the acquire
RxCheck_m ==
    /\ pumpPc = "check"
    /\ pumpPc' = "reading"
    /\ hwReads' = hwReads + 1
    /\ UNCHANGED <<inst, callerPc, wdata, ret, env, enum>>
    /\ UNCHANGED <<nWrites, nFailed, nOpenWrites, nSignals, nCloseSignals,
                   nXfer, xfer, threadsStarted, readLog, rxLog>>

\* lines 116-119: if not self.closed: issue self.ep_in.read(..., -1)
RxCheck ==
    /\ pumpPc = "check"
    /\ IF ~closed
       THEN /\ pumpPc' = "reading"
            /\ hwReads' = hwReads + 1
       ELSE /\ pumpPc' = "while"
            /\ UNCHANGED hwReads
    /\ UNCHANGED <<inst, callerPc, wdata, ret, env, enum>>
    /\ UNCHANGED <<nWrites, nFailed, nOpenWrites, nSignals, nCloseSignals,
                   nXfer, xfer, threadsStarted, readLog, rxLog>>

\* mutant of RxRead: the packet is inserted at the front of rcv_data
RxRead_m ==
    /\ pumpPc = "reading"
    /\ devResp # << >>
    /\ rcv_data' = <<Head(devResp)>> \o rcv_data
    /\ rxLog' = Append(rxLog, Head(devResp))
    /\ devResp' = Tail(devResp)
    /\ pumpPc' = "while"
    /\ UNCHANGED <<ep_out, ep_in, dev, closed, read_sem, _open, serial_number,
                   intf_number, callerPc, wdata, ret, bus, nDispose, enum>>
    /\ UNCHANGED <<nWrites, nFailed, nOpenWrites, nSignals, nCloseSignals,
                   nXfer, xfer, hwReads, threadsStarted, readLog>>

\* line 119: the blocking read returns a packet; self.rcv_data.append(...)
RxRead ==
    /\ pumpPc = "reading"
    /\ devResp # << >>
    /\ rcv_data' = Append(rcv_data, Head(devResp))
    /\ rxLog' = Append(rxLog, Head(devResp))
    /\ devResp' = Tail(devResp)
    /\ pumpPc' = "while"
    /\ UNCHANGED <<ep_out, ep_in, dev, closed, read_sem, _open, serial_number,
                   intf_number, callerPc, wdata, ret, bus, nDispose, enum>>
    /\ UNCHANGED <<nWrites, nFailed, nOpenWrites, nSignals, nCloseSignals,
                   nXfer, xfer, hwReads, threadsStarted, readLog>>

\* mutant of WriteCall: the signal is a flag, a second release is lost
WriteCall_flag(data) ==
    /\ callerPc = "idle"
    /\ nWrites < MaxWrites
    /\ wdata' = [arg |-> data, data |-> Pad(data, ReportSize(ep_out))]
    /\ read_sem' = IF read_sem = 0 THEN 1 ELSE read_sem
    /\ nSignals' = nSignals + 1
    /\ nWrites' = nWrites + 1
    /\ nOpenWrites' = nOpenWrites + (IF intf_number # << >> THEN 1 ELSE 0)
    /\ callerPc' = "write_xfer"
    /\ UNCHANGED <<ep_out, ep_in, dev, closed, rcv_data, _open, serial_number,
                   intf_number, pumpPc, ret, env, enum>>
    /\ UNCHANGED <<nFailed, nCloseSignals, nXfer, xfer, hwReads,
                   threadsStarted, readLog, rxLog>>

\* mutant of WriteCall: write() does not release the semaphore
WriteCall_nosignal(data) ==
    /\ callerPc = "idle"
    /\ nWrites < MaxWrites
    /\ wdata' = [arg |-> data, data |-> Pad(data, ReportSize(ep_out))]
    /\ nWrites' = nWrites + 1
    /\ nOpenWrites' = nOpenWrites + (IF intf_number # << >> THEN 1 ELSE 0)
    /\ callerPc' = "write_xfer"
    /\ UNCHANGED <<inst, pumpPc, ret, env, enum>>
    /\ UNCHANGED <<nFailed, nSignals, nCloseSignals, nXfer, xfer, hwReads,
                   threadsStarted, readLog, rxLog>>

\* -------------------------------------------------------------- write()
\* lines 159-166: report size, padding, self.read_sem.release()
WriteCall(data) ==
    /\ callerPc = "idle"
    /\ nWrites < MaxWrites
    /\ wdata' = [arg |-> data, data |-> Pad(data, ReportSize(ep_out))]
    /\ read_sem' = read_sem + 1
    /\ nSignals' = nSignals + 1
    /\ nWrites' = nWrites + 1
    /\ nOpenWrites' = nOpenWrites + (IF intf_number # << >> THEN 1 ELSE 0)
    /\ callerPc' = "write_xfer"
    /\ UNCHANGED <<ep_out, ep_in, dev, closed, rcv_data, _open, serial_number,
                   intf_number, pumpPc, ret, env, enum>>
    /\ UNCHANGED <<nFailed, nCloseSignals, nXfer, xfer, hwReads,
                   threadsStarted, readLog, rxLog>>

\* the transfer call returns (the device then queues one response) or raises
Transfer(x) ==
    /\ xfer' = x
    /\ nXfer' = [nXfer EXCEPT ![x.kind] = @ + 1]
    /\ \E ok \in BOOLEAN :
         IF ok
         THEN /\ devResp' = Append(devResp, nWrites)
              /\ ret' = Ret("write", "ok")
              /\ UNCHANGED nFailed
         ELSE /\ ret' = Ret("write", "USBError")
              /\ nFailed' = nFailed + 1
              /\ UNCHANGED devResp

\* mutant of WriteXfer: wIndex is 0 instead of self.intf_number
WriteXfer_m ==
    /\ callerPc = "write_xfer"
    /\ callerPc' = "idle"
    /\ wdata' = << >>
    /\ UNCHANGED <<inst, pumpPc, bus, nDispose, enum>>
    /\ UNCHANGED <<nWrites, nOpenWrites, nSignals, nCloseSignals, hwReads,
                   threadsStarted, readLog, rxLog>>
    /\ IF ep_out = None
       THEN IF intf_number = << >>
            THEN /\ ret' = Ret("write", "AttributeError")
                 /\ nFailed' = nFailed + 1
                 /\ UNCHANGED <<devResp, nXfer, xfer>>
            ELSE Transfer([kind |-> "ctrl", ep |-> 0,
                           req |-> <<bmRequestType, bmRequest, wValue, 0>>,
                           data |-> wdata.data, arg |-> wdata.arg,
                           call |-> nWrites, disposed |-> nDispose > 0])
       ELSE Transfer([kind |-> "ep_out", ep |-> ep_out.bEndpointAddress,
                      req |-> << >>,
                      data |-> wdata.data, arg |-> wdata.arg,
                      call |-> nWrites, disposed |-> nDispose > 0])

\* lines 168-179: control transfer when there is no OUT endpoint, else
\* self.ep_out.write(data)
WriteXfer ==
    /\ callerPc = "write_xfer"
    /\ callerPc' = "idle"
    /\ wdata' = << >>
    /\ UNCHANGED <<inst, pumpPc, bus, nDispose, enum>>
    /\ UNCHANGED <<nWrites, nOpenWrites, nSignals, nCloseSignals, hwReads,
                   threadsStarted, readLog, rxLog>>
    /\ IF ep_out = None
       THEN IF intf_number = << >>
            THEN \* wIndex = self.intf_number: the attribute does not exist
                 /\ ret' = Ret("write", "AttributeError")
                 /\ nFailed' = nFailed + 1
                 /\ UNCHANGED <<devResp, nXfer, xfer>>
            ELSE Transfer([kind |-> "ctrl", ep |-> 0,
                           req |-> <<bmRequestType, bmRequest, wValue,
                                     intf_number[1]>>,
                           data |-> wdata.data, arg |-> wdata.arg,
                           call |-> nWrites, disposed |-> nDispose > 0])
       ELSE Transfer([kind |-> "ep_out", ep |-> ep_out.bEndpointAddress,
                      req |-> << >>,
                      data |-> wdata.data, arg |-> wdata.arg,
                      call |-> nWrites, disposed |-> nDispose > 0])

\* --------------------------------------------------------------- read()
\* line 186: enter  while len(self.rcv_data) == 0: pass
ReadCall ==
    /\ callerPc = "idle"
    /\ callerPc' = "read_wait"
    /\ UNCHANGED <<inst, pumpPc, wdata, ret, env, hist, enum>>

\* mutant of ReadReturn: pop() takes the newest packet instead of pop(0)
ReadReturn_m ==
    /\ callerPc = "read_wait"
    /\ Len(rcv_data) # 0
    /\ readLog' = Append(readLog, rcv_data[Len(rcv_data)])
    /\ rcv_data' = SubSeq(rcv_data, 1, Len(rcv_data) - 1)
    /\ ret' = Ret("read", "ok")
    /\ callerPc' = "idle"
    /\ UNCHANGED <<ep_out, ep_in, dev, closed, read_sem, _open, serial_number,
                   intf_number, pumpPc, wdata, env, enum>>
    /\ UNCHANGED <<nWrites, nFailed, nOpenWrites, nSignals, nCloseSignals,
                   nXfer, xfer, hwReads, threadsStarted, rxLog>>

\* line 188: return self.rcv_data.pop(0)
ReadReturn ==
    /\ callerPc = "read_wait"
    /\ Len(rcv_data) # 0
    /\ readLog' = Append(readLog, Head(rcv_data))
    /\ rcv_data' = Tail(rcv_data)
    /\ ret' = Ret("read", "ok")
    /\ callerPc' = "idle"
    /\ UNCHANGED <<ep_out, ep_in, dev, closed, read_sem, _open, serial_number,
                   intf_number, pumpPc, wdata, env, enum>>
    /\ UNCHANGED <<nWrites, nFailed, nOpenWrites, nSignals, nCloseSignals,
                   nXfer, xfer, hwReads, threadsStarted, rxLog>>

\* -------------------------------------------------------------- close()
\* lines 202-203: assert self._open is True; self.closed = True
CloseCall ==
    /\ callerPc = "idle"
    /\ nDispose < MaxCloses
    /\ IF _open # TRUE
       THEN /\ ret' = Ret("close", "AssertionError")
            /\ UNCHANGED <<closed, callerPc>>
       ELSE /\ closed' = TRUE
            /\ callerPc' = "close_release"
            /\ UNCHANGED ret
    /\ UNCHANGED <<ep_out, ep_in, dev, rcv_data, read_sem, _open,
                   serial_number, intf_number, pumpPc, wdata, env, hist, enum>>

\* mutant of CloseRelease: close() does not release the semaphore
CloseRelease_m ==
    /\ callerPc = "close_release"
    /\ callerPc' = "close_join"
    /\ UNCHANGED <<inst, pumpPc, wdata, ret, env, hist, enum>>

\* line 204: self.read_sem.release()
CloseRelease ==
    /\ callerPc = "close_release"
    /\ read_sem' = read_sem + 1
    /\ nCloseSignals' = nCloseSignals + 1
    /\ callerPc' = "close_join"
    /\ UNCHANGED <<ep_out, ep_in, dev, closed, rcv_data, _open, serial_number,
                   intf_number, pumpPc, wdata, ret, env, enum>>
    /\ UNCHANGED <<nWrites, nFailed, nOpenWrites, nSignals, nXfer, xfer,
                   hwReads, threadsStarted, readLog, rxLog>>

\* mutant of CloseJoin: close() also resets self._open
CloseJoin_m ==
    /\ callerPc = "close_join"
    /\ pumpPc = "done"
    /\ nDispose' = nDispose + 1
    /\ _open' = FALSE
    /\ ret' = Ret("close", "ok")
    /\ callerPc' = "idle"
    /\ UNCHANGED <<ep_out, ep_in, dev, closed, rcv_data, read_sem,
                   serial_number, intf_number>>
    /\ UNCHANGED <<pumpPc, wdata, bus, devResp, hist, enum>>

\* mutant of CloseJoin: close() does not join the thread before disposing
CloseJoin_nojoin ==
    /\ callerPc = "close_join"
    /\ nDispose' = nDispose + 1
    /\ ret' = Ret("close", "ok")
    /\ callerPc' = "idle"
    /\ UNCHANGED <<inst, pumpPc, wdata, bus, devResp, hist, enum>>

\* lines 205-206: self.thread.join() returns once rx_task has ended, then
\* usb.util.dispose_resources(self.dev)
CloseJoin ==
    /\ callerPc = "close_join"
    /\ pumpPc = "done"
    /\ nDispose' = nDispose + 1
    /\ ret' = Ret("close", "ok")
    /\ callerPc' = "idle"
    /\ UNCHANGED <<inst, pumpPc, wdata, bus, devResp, hist, enum>>

\* ------------------------------------------ getAllConnectedInterface()
\* lines 132-137: all_devices = usb.core.find(find_all=True); boards = []
EnumCall ==
    /\ enumPc \in {"idle", "done"}
    /\ enumPc' = "loop"
    /\ enumIdx' = 0
    /\ boards' = << >>
    /\ UNCHANGED <<inst, threads, env, hist, held, product>>

\* lines 140-141 and 152: next board, product = board.product, or return
EnumNext ==
    /\ enumPc = "loop"
    /\ IF enumIdx < Len(bus)
       THEN /\ enumIdx' = enumIdx + 1
            /\ product' = bus[enumIdx + 1].product
            /\ held' = held \cup {enumIdx + 1}
            /\ enumPc' = "test"
       ELSE /\ enumPc' = "done"
            /\ UNCHANGED <<enumIdx, product, held>>
    /\ UNCHANGED <<inst, threads, env, hist, boards>>

\* mutant of EnumTest: the test is  find(...) <= 0
EnumTest_m ==
    /\ enumPc = "test"
    /\ IF Find(product, MARKER) <= 0
       THEN /\ held' = held \ {enumIdx}
            /\ UNCHANGED boards
       ELSE /\ boards' = Append(boards, NewPyUSB(bus[enumIdx].serial_number))
            /\ held' = held \ {enumIdx}
    /\ enumPc' = "loop"
    /\ UNCHANGED <<inst, threads, env, hist, enumIdx, product>>

\* lines 142-150: dispose and skip, or PyUSB(board.serial_number), dispose
\* and append
EnumTest ==
    /\ enumPc = "test"
    /\ IF Find(product, MARKER) < 0
       THEN /\ held' = held \ {enumIdx}
            /\ UNCHANGED boards
       ELSE /\ boards' = Append(boards, NewPyUSB(bus[enumIdx].serial_number))
            /\ held' = held \ {enumIdx}
    /\ enumPc' = "loop"
    /\ UNCHANGED <<inst, threads, env, hist, enumIdx, product>>

\* --------------------------------------------------------- specifications
Next ==
    \/ OpenCall
    \/ OpenFinish
    \/ \E data \in Payloads : WriteCall(data)
    \/ WriteXfer
    \/ ReadCall
    \/ ReadReturn
    \/ CloseCall
    \/ CloseRelease
    \/ CloseJoin
    \/ RxLoop
    \/ RxAcquire
    \/ RxCheck
    \/ RxRead

Spec == Init /\ [][Next]_vars

\* The rx_task thread and a caller inside close() or inside read()'s polling
\* loop are scheduled; a blocking ep_in.read() returns once the device has a
\* packet queued.
Fairness ==
    /\ WF_vars(RxLoop)
    /\ WF_vars(RxAcquire)
    /\ WF_vars(RxCheck)
    /\ WF_vars(RxRead)
    /\ WF_vars(ReadReturn)
    /\ WF_vars(CloseRelease)
    /\ WF_vars(CloseJoin)

LiveSpec == Init /\ [][Next]_vars /\ Fairness

\* devices for the enumeration scan: one per product string
EnumDevices ==
    { Dev("A", ProdDap, << >>), Dev("B", ProdMbed, << >>),
      Dev("C", ProdRepeat, << >>), Dev("D", ProdShort, << >>),
      Dev("E", ProdOther, << >>), Dev("F", ProdEmpty, << >>) }

EnumBuses == UNION { [1..n -> EnumDevices] : n \in 0..MaxBus }

InitEnum ==
    /\ bus \in EnumBuses
    /\ InitInstance("Z")
    /\ InitRest

NextEnum ==
    \/ EnumCall
    \/ EnumNext
    \/ EnumTest

SpecEnum == InitEnum /\ [][NextEnum]_vars

\* ------------------------------------------------------------- properties
CloseReturned == callerPc = "idle" /\ ret = Ret("close", "ok")

\* C1: when no write() call has raised, the i-th packet returned by read()
\* is the response to the i-th write() call, in every interleaving of the
\* caller and rx_task.
C1_FifoOrder ==
    nFailed = 0 => \A i \in 1..Len(readLog) : readLog[i] = i

C1_Witness ==
    /\ nFailed = 0
    /\ nWrites >= 2
    /\ Len(readLog) = nWrites

\* C2: under fair scheduling, once close() has set the closed flag, close()
\* returns unless rx_task sits in an ep_in.read() for which the device has no
\* packet; and with rx_task waiting on the semaphore close() always returns.
HwReadNeverCompletes == pumpPc = "reading" /\ devResp = << >>

C2_CloseTerminates ==
    /\ (callerPc = "close_release" /\ pumpPc = "acquire")
           ~> (CloseReturned /\ pumpPc = "done")
    /\ (callerPc = "close_release")
           ~> ((CloseReturned /\ pumpPc = "done") \/ HwReadNeverCompletes)

C2_Witness ==
    /\ CloseReturned
    /\ pumpPc = "done"
    /\ nWrites = 0
    /\ nCloseSignals = 1

\* C3: once close() has returned, no read() waits on an empty queue and no
\* write() issues a transfer.
C3_FailFastAfterClose ==
    nDispose > 0 =>
        /\ ~(callerPc = "read_wait" /\ rcv_data = << >>)
        /\ (xfer # None => ~xfer.disposed)

\* C4: the instance moves New -> Open -> Closed only; a receive thread is
\* started only by an open() on a never-opened, never-closed instance, and
\* an open() on an instance that is open or closed ends in AssertionError.
LifeState ==
    IF ~_open THEN "New" ELSE IF ~closed THEN "Open" ELSE "Closed"

C4_Lifecycle ==
    [][ /\ (LifeState' # LifeState =>
               <<LifeState, LifeState'>> \in
                   {<<"New", "Open">>, <<"Open", "Closed">>})
        /\ (threadsStarted' # threadsStarted =>
               LifeState = "New" /\ threadsStarted = 0 /\ nDispose = 0)
        /\ ((callerPc = "idle" /\ LifeState # "New" /\ ret' # ret
                 /\ ret'.op = "open") =>
               ret'.res = "AssertionError" /\ pumpPc' = pumpPc)
      ]_vars

C4_Witness ==
    /\ ret.op = "open"
    /\ ret.res = "AssertionError"
    /\ nDispose > 0
    /\ threadsStarted = 1

\* C5: close() signals rx_task and releases the device at most once per
\* instance, and never on an instance that is not open.
C5_CloseOnce ==
    /\ (~_open => nCloseSignals = 0 /\ nDispose = 0)
    /\ nCloseSignals <= 1
    /\ nDispose <= 1

\* C6: after open() has raised Error the instance is as constructed: not
\* open, no thread started, no device, endpoint or interface number stored,
\* so the assertion of a later open() passes.
C6_FailedOpenClean ==
    (ret.op = "open" /\ ret.res = "Error") =>
        /\ _open = FALSE
        /\ pumpPc = "none"
        /\ threadsStarted = 0
        /\ dev = None
        /\ ep_in = None
        /\ ep_out = None
        /\ intf_number = << >>

C6_Witness ==
    /\ ret.op = "open"
    /\ ret.res = "Error"
    /\ ret.detach = "detached"
    /\ callerPc = "idle"

HasInEndpoint(interface) ==
    \E n \in 1..Len(interface.endpoints) :
        (interface.endpoints[n].bEndpointAddress \div 128) % 2 = 1

\* C7 as stated: open() on a not-yet-open instance succeeds iff some bus
\* device matches the serial number and has some interface of class 0x03
\* with an IN endpoint.
C7_OpenIffSomeMatch ==
    (ret.op = "open" /\ ret.res # "AssertionError") =>
        /\ ret.res \in {"ok", "Error"}
        /\ ret.res = "ok" <=>
             \E i \in 1..Len(bus) :
                /\ bus[i].serial_number = serial_number
                /\ \E k \in 1..Len(bus[i].interfaces) :
                      /\ bus[i].interfaces[k].bInterfaceClass = 3
                      /\ HasInEndpoint(bus[i].interfaces[k])

\* C7 amended: open() on a not-yet-open instance succeeds iff the first bus
\* device that matches the serial number exists and the first interface of
\* class 0x03 in its configuration exists and has an IN endpoint; otherwise
\* it raises Error.  OUT endpoints and the kernel driver play no part.
C7_OpenIffFirstMatch ==
    (ret.op = "open" /\ ret.res # "AssertionError") =>
        /\ ret.res \in {"ok", "Error"}
        /\ ret.res = "ok" <=>
             \E i \in 1..Len(bus) :
                /\ bus[i].serial_number = serial_number
                /\ \A j \in 1..(i - 1) : bus[j].serial_number # serial_number
                /\ \E k \in 1..Len(bus[i].interfaces) :
                      /\ bus[i].interfaces[k].bInterfaceClass = 3
                      /\ \A l \in 1..(k - 1) :
                            bus[i].interfaces[l].bInterfaceClass # 3
                      /\ HasInEndpoint(bus[i].interfaces[k])

C7_Witness ==
    /\ ret = [op |-> "open", res |-> "ok", detach |-> "raised"]
    /\ ep_out = None
    /\ _open = TRUE

\* C8: a transfer whose payload is no longer than the report size carries
\* exactly report-size bytes: the payload, then zeros.  The report size is
\* the OUT endpoint's wMaxPacketSize on the endpoint path and 64 on the
\* control path.
C8_PaddedFrame ==
    xfer # None =>
        LET size == IF xfer.kind = "ep_out" THEN ep_out.wMaxPacketSize ELSE 64
            n == Len(xfer.arg)
        IN n <= size =>
              /\ Len(xfer.data) = size
              /\ \A i \in 1..size :
                    xfer.data[i] = IF i <= n THEN xfer.arg[i] ELSE 0

C8_Witness ==
    /\ xfer # None
    /\ xfer.kind = "ep_out"
    /\ xfer.arg = <<2, 0, 5>>
    /\ Len(xfer.data) = 64

\* C9: between calls, the transfers issued are one per write() made on the
\* opened instance, all on the OUT endpoint when there is one, and otherwise
\* all control transfers (0x21, 0x09, 0x0200, interface number).
C9_OneTransferPerWrite ==
    callerPc # "write_xfer" =>
        IF ep_out # None
        THEN /\ nXfer = [ep_out |-> nOpenWrites, ctrl |-> 0]
             /\ xfer # None =>
                   /\ xfer.kind = "ep_out"
                   /\ xfer.ep = ep_out.bEndpointAddress
        ELSE /\ nXfer = [ep_out |-> 0, ctrl |-> nOpenWrites]
             /\ xfer # None =>
                   /\ xfer.kind = "ctrl"
                   /\ xfer.req = <<33, 9, 512, intf_number[1]>>
                   /\ \E i \in 1..Len(bus) :
                         /\ bus[i].serial_number = serial_number
                         /\ \E k \in 1..Len(bus[i].interfaces) :
                               /\ bus[i].interfaces[k].bInterfaceClass = 3
                               /\ bus[i].interfaces[k].bInterfaceNumber =
                                     xfer.req[4]

C9_Witness ==
    /\ callerPc = "idle"
    /\ ep_out = None
    /\ nXfer.ctrl = 2
    /\ nOpenWrites = 2

\* C10: when getAllConnectedInterface returns, boards holds one fresh PyUSB
\* per device whose product string contains "CMSIS-DAP", in bus order, and
\* no scanned device is still held.
Contains(s, sub) ==
    \E i \in 1..(Len(s) + 1) :
        /\ i + Len(sub) - 1 <= Len(s)
        /\ \A j \in 1..Len(sub) : s[i + j - 1] = sub[j]

IsCandidate(d) == Contains(d.product, <<"C", "M", "S", "I", "S", "-", "D", "A", "P">>)

ReadReturned == callerPc = "idle" /\ ret = Ret("read", "ok")

C11_ReadBlocksUntilPacket ==
    /\ [][ (callerPc = "read_wait" /\ callerPc' # "read_wait") =>
              /\ rcv_data # << >>
              /\ readLog' = Append(readLog, Head(rcv_data))
              /\ rcv_data' = Tail(rcv_data)
         ]_vars
    /\ (callerPc = "read_wait" /\ rcv_data # << >>) ~> ReadReturned
    /\ (callerPc = "read_wait" /\ pumpPc = "reading" /\ devResp # << >>)
           ~> ReadReturned

C11_Witness ==
    /\ ReadReturned
    /\ Len(readLog) = 2
    /\ rcv_data = << >>

\* C12: rx_task never has issued more ep_in.read() calls than write() has
\* released the semaphore, and issues none once the closed flag is set.
C12_NoSpeculativeRead ==
    /\ [](hwReads <= nSignals)
    /\ [][closed => hwReads' = hwReads]_vars

C12_Witness ==
    /\ CloseReturned
    /\ nCloseSignals = 1
    /\ nSignals = 2
    /\ hwReads = 2

\* C13: on an open instance, under fair scheduling, the k-th write() signal
\* is followed by the k-th ep_in.read(), unless the instance is closed or
\* rx_task sits in a read for which the device has no packet; and the reads
\* never outnumber the signals.
C13_OneReadPerWrite ==
    /\ \A k \in 1..MaxWrites :
          (_open /\ nSignals >= k)
              ~> (hwReads >= k \/ closed \/ HwReadNeverCompletes)
    /\ [](_open /\ ~closed => hwReads <= nSignals)

C13_Witness ==
    /\ _open
    /\ ~closed
    /\ nSignals = 2
    /\ hwReads = 2
    /\ readLog = << >>
    /\ Len(rcv_data) = 2

\* C14: close() releases the semaphore only with the closed flag set, and
\* disposes of the device only after its own release and with rx_task
\* ended; so the device is never disposed of, and close() never returns,
\* while rx_task runs or has a read in flight.
C14_CloseOrder ==
    /\ [][ /\ (closed' # closed => nCloseSignals = 0 /\ nDispose = 0)
           /\ (nCloseSignals' # nCloseSignals =>
                  closed /\ nCloseSignals = nDispose)
           /\ (nDispose' # nDispose =>
                  /\ pumpPc = "done"
                  /\ nCloseSignals = nDispose + 1
                  /\ ret' = Ret("close", "ok"))
         ]_vars
    /\ [](nDispose > 0 => pumpPc = "done")

C14_Witness ==
    /\ callerPc = "close_join"
    /\ pumpPc = "reading"
    /\ nDispose = 0

\* C15: the packets returned by read() followed by the packets in rcv_data
\* are the packets returned by ep_in.read(), in completion order.
C15_NoLossNoReorder == readLog \o rcv_data = rxLog

C15_Witness ==
    /\ Len(readLog) = 1
    /\ Len(rcv_data) = 2

\* C16: every write() call has released the semaphore exactly once, and a
\* transfer is issued only after the release of its own call.
C16_SignalBeforeTransfer ==
    /\ [](nSignals = nWrites)
    /\ [][ nXfer' # nXfer =>
              /\ nSignals' = nSignals
              /\ xfer'.call = nSignals
              /\ callerPc = "write_xfer"
         ]_vars

C16_Witness ==
    /\ callerPc = "write_xfer"
    /\ nWrites = 2
    /\ nXfer.ep_out = 1
    /\ pumpPc = "reading"
    /\ hwReads = 2

\* C17 as stated, taken on an open instance none of whose write() calls
\* raised: the semaphore count is at most 1.
C17_AtMostOnePending ==
    (_open /\ ~closed /\ nFailed = 0) => read_sem <= 1

\* C17 amended: the semaphore count is at most the number of write() and
\* close() releases for which rx_task has not yet issued a read.
C17_PendingPerRelease ==
    read_sem + hwReads <= nSignals + nCloseSignals

C17_Witness ==
    /\ _open
    /\ ~closed
    /\ read_sem = 2
    /\ nSignals = 2
    /\ nFailed = 0

\* C18: between calls, the read expectations raised (reads issued plus
\* semaphore count) do not exceed the write() calls that did not raise,
\* plus the wake-ups of close().
C18_FailedWriteLeavesNothing ==
    callerPc # "write_xfer" =>
        hwReads + read_sem <= (nWrites - nFailed) + nCloseSignals

\* C19: thread.start() runs at most once per instance, and an instance
\* marked open has its thread started and its IN endpoint set.
C19_OnePump ==
    /\ threadsStarted <= 1
    /\ (pumpPc = "none") = (threadsStarted = 0)
    /\ pumpPc # "none" => ep_in # None /\ IsIn(ep_in)
    /\ _open => threadsStarted = 1

C19_Witness ==
    /\ _open
    /\ threadsStarted = 1
    /\ nDispose = 0
    /\ ret.op = "open"
    /\ ret.res = "AssertionError"

====
